---- MODULE Spec2Model ----
(***************************************************************************)
(* Model of 2_Scraper/2_Functions/a_PoleStudio_URL_S_V6_Func.py:           *)
(* the PoleStudioScraper field extractors, the ScraperErrorManager and the *)
(* module-level batch loop over url_list_s.                                *)
(*                                                                         *)
(* Conventions.                                                            *)
(*  - A Python str is a sequence of atoms.  The atoms " ", ",", "(", ")"   *)
(*    and the whitespace characters of Whitespace are those single         *)
(*    characters; "mailto:" and "tel:" are the two scheme literals the     *)
(*    code tests for; every other atom is a run of ordinary characters     *)
(*    that contains none of these.                                         *)
(*  - An optional value (Python None or a value) is a sequence of length   *)
(*    0 or 1: None == <<>>, Some(v) == <<v>>.                              *)
(*  - A parsed page (self.soup) is a record holding, for every selector    *)
(*    the extractors use, the elements that selector matches, in document  *)
(*    order.  soup.find(..) is the first of them, soup.find_all(..) all.   *)
(*    The empty list of a list-valued extractor is <<>> as well; which of  *)
(*    the two a returned <<>> stands for follows from the extractor.       *)
(*  - A method call yields [raised |-> None or Some(exception name),       *)
(*    value |-> the returned value].                                       *)
(***************************************************************************)
EXTENDS Integers, Sequences, FiniteSets, TLC

VARIABLES
    url_list_s,   \* the batch input (line 145)
    i,            \* position of the for loop in url_list_s (1-based)
    pc,           \* position inside the loop body / "scraper" for a bare object
    response,     \* self.response of the scraper under construction
    soup,         \* self.soup
    buttons_list, \* local of the loop body (line 152)
    outputs,      \* what print (line 153) has written, in order
    log,          \* records passed to the logger, in order
    exc,          \* the exception in flight inside the try block, or None
    calls,        \* history: per loop iteration, what was invoked
    result        \* outcome of the last extractor call on a bare scraper object

vars == <<url_list_s, i, pc, response, soup, buttons_list, outputs, log, exc, calls, result>>

----------------------------------------------------------------------------
(* Bounds of the model *)

MaxUrls == 2
MaxElems == 2
MaxInner == 2
MaxRatingLen == 4
MaxAddrLen == 6
MaxAnchors == 2
MaxContactDivs == 2

----------------------------------------------------------------------------
(* Python values *)

None == <<>>
Some(v) == <<v>>

Ok(v) == [raised |-> None, value |-> v]
Raise(e) == [raised |-> Some(e), value |-> None]

RECURSIVE SeqsUpTo(_, _)
SeqsUpTo(S, n) ==
    IF n = 0 THEN {<<>>}
    ELSE LET shorter == SeqsUpTo(S, n - 1)
         IN  shorter \cup {Append(s, x) : s \in {t \in shorter : Len(t) = n - 1}, x \in S}

RECURSIVE Flatten(_)
Flatten(ss) == IF ss = <<>> THEN <<>> ELSE Head(ss) \o Flatten(Tail(ss))

(* str.split(sep) for a one-character separator: always at least one part *)
RECURSIVE Split(_, _)
Split(s, sep) ==
    IF s = <<>> THEN <<<<>>>>
    ELSE LET rest == Split(Tail(s), sep)
         IN  IF Head(s) = sep
             THEN <<<<>>>> \o rest
             ELSE <<<<Head(s)>> \o Head(rest)>> \o Tail(rest)

(* the characters str.strip() removes, those for which str.isspace()
   holds: space, tab, newline, carriage return, form feed, and (written
   here by their Python escapes) vertical tab, the separators 1c-1f, NEL,
   the no-break space and the Unicode spaces *)
Whitespace ==
    {" ", "\t", "\n", "\r", "\f", "\\x0b", "\\x1c", "\\x1d", "\\x1e", "\\x1f",
     "\\x85", "\\xa0", "\\u1680", "\\u2000-\\u200a", "\\u2028", "\\u2029",
     "\\u202f", "\\u205f", "\\u3000"}

RECURSIVE LStrip(_)
LStrip(s) == IF s # <<>> /\ Head(s) \in Whitespace THEN LStrip(Tail(s)) ELSE s

RECURSIVE RStrip(_)
RStrip(s) ==
    IF s # <<>> /\ s[Len(s)] \in Whitespace
    THEN RStrip(SubSeq(s, 1, Len(s) - 1)) ELSE s

(* str.strip() *)
Strip(s) == RStrip(LStrip(s))

(* str.replace(old, '') for an atom old: every occurrence is removed *)
Replace(s, old) == SelectSeq(s, LAMBDA c : c # old)

(* str.startswith(prefix) for an atom prefix *)
StartsWith(s, prefix) == s # <<>> /\ Head(s) = prefix

(* soup.find(..): the first matching element, or None *)
Find(matches) == IF matches = <<>> THEN None ELSE Some(Head(matches))

----------------------------------------------------------------------------
(* PoleStudioScraper: the field extractors, as functions of self.soup *)

(* line 23-25: every <a> of every matching div, in document order;
   a div is the sequence of the texts of its <a> descendants *)
extract_overview_buttons(page) ==
    LET buttons_divs == page.buttons_divs
        button_texts == Flatten(buttons_divs)
    IN  Ok(button_texts)

extract_pole_studio_name_unguarded(page) ==
    LET name_element == Find(page.name_h1)
    IN  IF name_element # None THEN Ok(Some(name_element[1]))
        ELSE Raise("AttributeError")

(* line 31-32 *)
extract_pole_studio_name(page) ==
    LET name_element == Find(page.name_h1)
    IN  IF name_element # None THEN Ok(Some(name_element[1])) ELSE Ok(None)

(* line 42-48: one <a href=..> folded into contact_info *)
ClassifyAnchor(contact_info, href) ==
    IF StartsWith(href, "mailto:")
    THEN [contact_info EXCEPT !["E-Mail"] = Some(Replace(href, "mailto:"))]
    ELSE IF StartsWith(href, "tel:")
    THEN [contact_info EXCEPT !["Telefon"] = Some(Replace(href, "tel:"))]
    ELSE [contact_info EXCEPT !["Homepage"] = Some(href)]

RECURSIVE FoldAnchors(_, _)
FoldAnchors(contact_info, hrefs) ==
    IF hrefs = <<>> THEN contact_info
    ELSE FoldAnchors(ClassifyAnchor(contact_info, Head(hrefs)), Tail(hrefs))

(* div.find_all('a', href=True): the anchors that carry an href, in order *)
AnchorsWithHref(div) ==
    LET kept == SelectSeq(div, LAMBDA a : a.href # None)
    IN  [k \in 1..Len(kept) |-> kept[k].href[1]]

(* line 38-49 *)
extract_contact_info(page) ==
    LET contact_divs == page.contact_divs
        hrefs == Flatten([d \in 1..Len(contact_divs) |-> AnchorsWithHref(contact_divs[d])])
        empty == [n \in {"E-Mail", "Homepage", "Telefon"} |-> None]
    IN  Ok(FoldAnchors(empty, hrefs))

extract_address_postal_first(page) ==
    LET address_element == Find(page.address_p)
    IN  IF address_element # None
        THEN LET address_text == Split(address_element[1], ",")
             IN  IF Len(address_text) < 2 THEN Raise("IndexError")
                 ELSE LET tokens == Split(address_text[2], " ")
                      IN  IF Len(tokens) < 3 THEN Raise("IndexError")
                          ELSE Ok(<<Some(address_text), Some(tokens[2]),
                                    Some(tokens[3]), Some(address_text[1])>>)
        ELSE Ok(<<None, None, None, None>>)

(* line 55-59; Python's address_text[1] is address_text[2] here, and
   .split(" ")[2], .split(" ")[1] are tokens[3], tokens[2] *)
extract_address(page) ==
    LET address_element == Find(page.address_p)
    IN  IF address_element # None
        THEN LET address_text == Split(address_element[1], ",")
             IN  IF Len(address_text) < 2 THEN Raise("IndexError")
                 ELSE LET tokens == Split(address_text[2], " ")
                      IN  IF Len(tokens) < 3 THEN Raise("IndexError")
                          ELSE Ok(<<Some(address_text), Some(tokens[3]),
                                    Some(tokens[2]), Some(address_text[1])>>)
        ELSE Ok(<<None, None, None, None>>)

(* line 65-66 *)
extract_description(page) ==
    LET description_element == Find(page.description_div)
    IN  IF description_element # None THEN Ok(Some(description_element[1])) ELSE Ok(None)

(* line 72-76: parts[1] does not exist when the text holds no "(" *)
extract_rating(page) ==
    LET rating_element == Find(page.rating_p)
    IN  IF rating_element # None
        THEN LET parts == Split(rating_element[1], "(")
             IN  IF Len(parts) < 2 THEN Raise("IndexError")
                 ELSE Ok(<<Some(Strip(parts[1])), Some(Strip(Replace(parts[2], ")")))>>)
        ELSE Ok(<<None, None>>)

(* f"{label}: {value}" *)
FormatFactor(label, value) == label \o <<":", " ">> \o value

extract_rating_factors_label_only(page) ==
    LET items == page.factor_items
        kept == SelectSeq(items, LAMBDA item : Find(item.label) # None)
    IN  IF \E k \in 1..Len(kept) : Find(kept[k].value) = None
        THEN Raise("AttributeError")
        ELSE Ok([k \in 1..Len(kept) |->
                    FormatFactor(Find(kept[k].label)[1], Find(kept[k].value)[1])])

(* line 82-83: an item carries the <p> elements matching the label class
   and those matching the value class; item.find(..) is the first of each *)
extract_rating_factors(page) ==
    LET items == page.factor_items
        kept == SelectSeq(items, LAMBDA item :
                    Find(item.label) # None /\ Find(item.value) # None)
    IN  Ok([k \in 1..Len(kept) |->
               FormatFactor(Find(kept[k].label)[1], Find(kept[k].value)[1])])

(* line 89-90 *)
extract_art(page) ==
    LET art_elements == page.art_p
    IN  Ok(art_elements)

(* line 96-97 *)
extract_sale(page) ==
    LET sale_element == Find(page.sale_p)
    IN  IF sale_element # None THEN Ok(Some(sale_element[1])) ELSE Ok(None)

(* line 103-104: a div is the sequence of its <img> descendants, each with
   an optional src; div.find("img") is the first of them *)
extract_image_urls(page) ==
    LET pictures == page.pictures
        kept == SelectSeq(pictures, LAMBDA div :
                    Find(div) # None /\ Find(div)[1].src # None)
    IN  Ok([k \in 1..Len(kept) |-> Find(kept[k])[1].src[1]])

----------------------------------------------------------------------------
(* ScraperErrorManager: the logger is the sequence of records it was handed *)

(* line 118-122 *)
log_error(logger, message) ==
    Append(logger, [levelname |-> "ERROR", message |-> message])

(* line 124-128 *)
log_warning(logger, message) ==
    Append(logger, [levelname |-> "WARNING", message |-> message])

handle_url_error_as_warning(logger, url, exception) ==
    LET error_message == <<"Error accessing URL", url, exception>>
    IN  log_warning(logger, error_message)

(* line 130-135: f"Error accessing URL '{url}': {str(exception)}" *)
handle_url_error(logger, url, exception) ==
    LET error_message == <<"Error accessing URL", url, exception>>
    IN  log_error(logger, error_message)

(* line 137-142: f"Error accessing element '{element_name}': {str(exception)}" *)
handle_element_error(logger, element_name, exception) ==
    LET error_message == <<"Error accessing element", element_name, exception>>
    IN  log_warning(logger, error_message)

----------------------------------------------------------------------------
(* Pages and texts the model draws its inputs from *)

EmptyPage ==
    [buttons_divs |-> <<>>, name_h1 |-> <<>>, contact_divs |-> <<>>,
     address_p |-> <<>>, description_div |-> <<>>, rating_p |-> <<>>,
     factor_items |-> <<>>, art_p |-> <<>>, sale_p |-> <<>>, pictures |-> <<>>]

Texts == {<<"x">>, <<"y">>}

RatingExample == <<"4.8", " ", "(", "123", ")">>
AddressExample == <<"Main", " ", "St", " ", "5", ",", " ", "10115", " ", "Berlin">>
MailA == <<"mailto:", "a@x.com">>
MailB == <<"mailto:", "b@x.com">>
Tel123 == <<"tel:", "123">>
HomepageExample == <<"https://example.com">>

Anchor(href) == [href |-> Some(href)]

FullPage ==
    [buttons_divs |-> <<<<<<"x">>, <<"y">>>>>>,
     name_h1 |-> <<<<"x">>>>,
     contact_divs |-> <<<<Anchor(MailA), Anchor(Tel123), Anchor(HomepageExample)>>>>,
     address_p |-> <<AddressExample>>,
     description_div |-> <<<<"y">>>>,
     rating_p |-> <<RatingExample>>,
     factor_items |-> <<[label |-> <<<<"x">>>>, value |-> <<<<"y">>>>]>>,
     art_p |-> <<<<"x">>>>,
     sale_p |-> <<<<"y">>>>,
     pictures |-> <<<<[src |-> Some(<<"x">>)]>>>>]

----------------------------------------------------------------------------
(* The batch loop, lines 149-158 *)

Urls == {"u1", "u2"}

(* what requests.get can hand back: a response of any status whose body
   html.parser either turns into a tree or rejects *)
StatusCodes == {200, 404}
BatchPages == {EmptyPage, FullPage}
Responses ==
    [status_code : StatusCodes, markup_ok : BOOLEAN, tree : BatchPages]

(* requests.exceptions.RequestException and subclasses *)
RequestExceptions == {"ConnectionError", "Timeout"}

(* subclasses of Exception outside RequestException that the try block
   sees: urllib3's LocationParseError escaping requests.get, the parser
   rejecting the markup, a RecursionError in the extractor, print failing *)
FetchOtherExceptions == {"LocationParseError"}
PrintExceptions == {"UnicodeEncodeError", "OSError"}
OtherExceptions ==
    FetchOtherExceptions \cup {"ParserRejectedMarkup", "RecursionError"}
       \cup PrintExceptions

(* the exceptions that derive from BaseException but not from Exception *)
NonExceptions == {"KeyboardInterrupt", "SystemExit", "GeneratorExit"}

IsRequestException_connection_only(e) == e = "ConnectionError"

IsRequestException(e) == e \in RequestExceptions

(* isinstance(e, Exception): true of every exception whatever its name,
   save the three that derive from BaseException alone *)
IsException(e) == e \notin NonExceptions

NoCall ==
    [method |-> "none", raised |-> None, value |-> None]

NewCall(url) ==
    [url |-> url, get |-> "pending", status_code |-> 0, parsed |-> 0,
     extracted |-> 0, printed |-> 0, print_raised |-> 0, print_returned |-> 0,
     raised |-> None, logged |-> <<>>]

Init ==
    /\ url_list_s \in SeqsUpTo(Urls, MaxUrls)
    /\ i = 1
    /\ pc = "for"
    /\ response = None
    /\ soup = None
    /\ buttons_list = None
    /\ outputs = <<>>
    /\ log = <<>>
    /\ exc = None
    /\ calls = <<>>
    /\ result = NoCall

(* line 149: the for statement takes the next url, or the loop ends *)
ForNext ==
    /\ pc = "for"
    /\ i <= Len(url_list_s)
    /\ pc' = "get"
    /\ calls' = Append(calls, NewCall(url_list_s[i]))
    /\ UNCHANGED <<url_list_s, i, response, soup, buttons_list, outputs, log, exc, result>>

ForEnd ==
    /\ pc = "for"
    /\ i > Len(url_list_s)
    /\ pc' = "done"
    /\ UNCHANGED <<url_list_s, i, response, soup, buttons_list, outputs, log, exc, calls, result>>

(* line 16: requests.get raises a RequestException (no connection, timeout),
   or raises an exception that is no RequestException (a LocationParseError
   of urllib3 that requests lets through), or returns a response; a response
   is returned whatever its status code, the code never calls
   raise_for_status.  The call has no timeout: it may also never return,
   which is the loop staying at this step for ever. *)
RequestsGet ==
    /\ pc = "get"
    /\ \/ \E e \in RequestExceptions :
            /\ exc' = Some(e)
            /\ pc' = "except"
            /\ calls' = [calls EXCEPT ![i].get = "raised",
                                      ![i].raised = Some(e)]
            /\ UNCHANGED response
       \/ \E e \in FetchOtherExceptions :
            /\ exc' = Some(e)
            /\ pc' = "except"
            /\ calls' = [calls EXCEPT ![i].get = "raised",
                                      ![i].raised = Some(e)]
            /\ UNCHANGED response
       \/ \E r \in Responses :
            /\ response' = Some(r)
            /\ pc' = "soup"
            /\ calls' = [calls EXCEPT ![i].get = "returned",
                                      ![i].status_code = r.status_code]
            /\ UNCHANGED exc
    /\ UNCHANGED <<url_list_s, i, soup, buttons_list, outputs, log, result>>

(* line 17: BeautifulSoup(self.response.content, 'html.parser') *)
BeautifulSoupParse ==
    /\ pc = "soup"
    /\ IF response[1].markup_ok
       THEN /\ soup' = Some(response[1].tree)
            /\ pc' = "extract"
            /\ calls' = [calls EXCEPT ![i].parsed = @ + 1]
            /\ UNCHANGED exc
       ELSE /\ exc' = Some("ParserRejectedMarkup")
            /\ pc' = "except"
            /\ calls' = [calls EXCEPT ![i].raised = Some("ParserRejectedMarkup")]
            /\ UNCHANGED soup
    /\ UNCHANGED <<url_list_s, i, response, buttons_list, outputs, log, result>>

(* line 152: the call returns the list, or an exception escapes it (the
   extractor itself raises none; a RecursionError can escape .text) *)
ExtractOverviewButtons ==
    /\ pc = "extract"
    /\ \/ LET r == extract_overview_buttons(soup[1])
          IN  IF r.raised = None
              THEN /\ buttons_list' = Some(r.value)
                   /\ pc' = "print"
                   /\ calls' = [calls EXCEPT ![i].extracted = @ + 1]
                   /\ UNCHANGED exc
              ELSE /\ exc' = r.raised
                   /\ pc' = "except"
                   /\ calls' = [calls EXCEPT ![i].extracted = @ + 1,
                                             ![i].raised = r.raised]
                   /\ UNCHANGED buttons_list
       \/ /\ exc' = Some("RecursionError")
          /\ pc' = "except"
          /\ calls' = [calls EXCEPT ![i].extracted = @ + 1,
                                    ![i].raised = Some("RecursionError")]
          /\ UNCHANGED buttons_list
    /\ UNCHANGED <<url_list_s, i, response, soup, outputs, log, result>>

(* line 153: print writes the text and then the line end to sys.stdout.
   It returns with the whole line written and the next iteration begins;
   or it raises inside the try block before anything is written
   (UnicodeEncodeError when sys.stdout cannot encode the text, OSError
   when the stream fails at once); or it raises OSError after part of the
   line has reached the stream (an unbuffered stdout failing at the line
   end); or it returns at once with nothing written and nothing raised
   (sys.stdout is None).  complete tells whether the whole line was
   written. *)
PrintButtons ==
    /\ pc = "print"
    /\ \/ /\ outputs' = Append(outputs, [url |-> url_list_s[i],
                                          buttons_list |-> buttons_list[1],
                                          complete |-> TRUE])
          /\ calls' = [calls EXCEPT ![i].printed = @ + 1,
                                    ![i].print_returned = @ + 1]
          /\ i' = i + 1
          /\ pc' = "for"
          /\ UNCHANGED exc
       \/ \E e \in PrintExceptions :
            /\ exc' = Some(e)
            /\ calls' = [calls EXCEPT ![i].print_raised = @ + 1,
                                      ![i].raised = Some(e)]
            /\ pc' = "except"
            /\ UNCHANGED <<outputs, i>>
       \/ /\ outputs' = Append(outputs, [url |-> url_list_s[i],
                                          buttons_list |-> buttons_list[1],
                                          complete |-> FALSE])
          /\ calls' = [calls EXCEPT ![i].printed = @ + 1,
                                    ![i].print_raised = @ + 1,
                                    ![i].raised = Some("OSError")]
          /\ exc' = Some("OSError")
          /\ pc' = "except"
          /\ UNCHANGED i
       \/ /\ calls' = [calls EXCEPT ![i].print_returned = @ + 1]
          /\ i' = i + 1
          /\ pc' = "for"
          /\ UNCHANGED <<outputs, exc>>
    /\ UNCHANGED <<url_list_s, response, soup, buttons_list, log, result>>

(* line 155-158: the except clauses, tried in order: a RequestException
   goes to handle_url_error, every other Exception to handle_element_error;
   only an exception that does not derive from Exception leaves the loop *)
ExceptClauses ==
    /\ pc = "except"
    /\ IF IsRequestException(exc[1])
       THEN /\ log' = handle_url_error(log, url_list_s[i], exc[1])
            /\ calls' = [calls EXCEPT ![i].logged =
                            handle_url_error(@, url_list_s[i], exc[1])]
            /\ i' = i + 1
            /\ pc' = "for"
       ELSE IF IsException(exc[1])
       THEN /\ log' = handle_element_error(log, "overview buttons", exc[1])
            /\ calls' = [calls EXCEPT ![i].logged =
                            handle_element_error(@, "overview buttons", exc[1])]
            /\ i' = i + 1
            /\ pc' = "for"
       ELSE /\ pc' = "aborted"
            /\ UNCHANGED <<log, calls, i>>
    /\ exc' = None
    /\ UNCHANGED <<url_list_s, response, soup, buttons_list, outputs, result>>

Next ==
    \/ ForNext
    \/ ForEnd
    \/ RequestsGet
    \/ BeautifulSoupParse
    \/ ExtractOverviewButtons
    \/ PrintButtons
    \/ ExceptClauses

(* no fairness: requests.get has no timeout and print may block on its
   stream, so the loop is not bound to take its next step *)
Spec == Init /\ [][Next]_vars

----------------------------------------------------------------------------
(* Properties of the batch loop *)

(* iteration k of the loop has run to its end *)
Completed(k) == k \in 1..Len(calls) /\ k < i

UrlErrorEntry(url, e) ==
    [levelname |-> "ERROR", message |-> <<"Error accessing URL", url, e>>]

ElementWarningEntry(e) ==
    [levelname |-> "WARNING",
     message |-> <<"Error accessing element", "overview buttons", e>>]

IsUrlErrorFor(entry, url) ==
    /\ entry.levelname = "ERROR"
    /\ entry.message[1] = "Error accessing URL"
    /\ entry.message[2] = url

(* what each iteration handed to the logger, in iteration order *)
LoggedInOrder == Flatten([k \in 1..Len(calls) |-> calls[k].logged])

(* the fetch of iteration k raised a requests RequestException *)
RetrievalFailed(k) ==
    /\ calls[k].get = "raised"
    /\ calls[k].raised # None
    /\ calls[k].raised[1] \in RequestExceptions

(* C1: a locator whose fetch raises a RequestException gets no output, no
   parse, no extractor call, and, once its iteration is over, exactly one
   ERROR entry "Error accessing URL" naming it; the log holds as many such
   entries for a url as fetches of that url have raised a RequestException
   (a fetch that raises any other exception adds none); an output is only
   ever written for a locator whose fetch returned. *)
C1_RetrievalFailure ==
    /\ \A k \in 1..Len(calls) :
          RetrievalFailed(k) =>
             /\ calls[k].printed = 0
             /\ calls[k].parsed = 0
             /\ calls[k].extracted = 0
             /\ IF Completed(k)
                THEN calls[k].logged =
                        <<UrlErrorEntry(url_list_s[k], calls[k].raised[1])>>
                ELSE calls[k].logged = <<>>
    /\ \A u \in Urls :
          Cardinality({n \in 1..Len(log) : IsUrlErrorFor(log[n], u)})
             = Cardinality({k \in 1..Len(calls) :
                               Completed(k) /\ calls[k].url = u /\ RetrievalFailed(k)})
    /\ \A n \in 1..Len(outputs) :
          \E k \in 1..Len(calls) :
             calls[k].url = outputs[n].url /\ calls[k].get = "returned"

C1_Witness ==
    /\ pc = "done"
    /\ \E k \in 1..Len(calls) : RetrievalFailed(k)
    /\ \E k \in 1..Len(calls) :
          /\ calls[k].get = "raised"
          /\ calls[k].raised[1] \in OtherExceptions
          /\ Len(calls[k].logged) = 1

(* C2: a fetch that returns a non-success status is a retrieval failure:
   the body is not parsed, nothing is printed, one retrieval error is
   logged for the locator. *)
C2_StatusIsFailure ==
    \A k \in 1..Len(calls) :
       (Completed(k) /\ calls[k].get = "returned" /\ calls[k].status_code # 200) =>
          /\ calls[k].parsed = 0
          /\ calls[k].printed = 0
          /\ \E e \in RequestExceptions \cup {"HTTPError"} :
                calls[k].logged = <<UrlErrorEntry(url_list_s[k], e)>>

(* the two terminal states of section 4.4 *)
Done(k) ==
    /\ calls[k].printed = 1
    /\ calls[k].print_raised = 0
    /\ calls[k].logged = <<>>
LoadFailed(k) ==
    /\ calls[k].printed = 0
    /\ Len(calls[k].logged) = 1
    /\ IsUrlErrorFor(calls[k].logged[1], url_list_s[k])

(* C3: when the batch has ended every locator is Done or LoadFailed. *)
C3_DoneOrLoadFailed ==
    pc = "done" =>
       \A k \in 1..Len(url_list_s) :
          k <= Len(calls) /\ (Done(k) \/ LoadFailed(k))

(* C4: a locator that loads and parses always yields a record. *)
C4_RecordAlwaysProduced ==
    \A k \in 1..Len(calls) :
       (Completed(k) /\ calls[k].parsed = 1) => calls[k].printed = 1

(* C10 as stated: every finished iteration has exactly one outcome: one
   output and no log entry, or no output and one log entry (ERROR from
   handle_url_error when the exception is a RequestException, WARNING from
   handle_element_error for any other); outputs plus log entries equal the
   iterations finished. *)
C10_ExactlyOneOutcome ==
    /\ \A k \in 1..Len(calls) :
          Completed(k) =>
             \/ calls[k].printed = 1 /\ calls[k].logged = <<>>
             \/ /\ calls[k].printed = 0
                /\ calls[k].raised # None
                /\ calls[k].logged =
                      IF calls[k].raised[1] \in RequestExceptions
                      THEN <<UrlErrorEntry(url_list_s[k], calls[k].raised[1])>>
                      ELSE <<ElementWarningEntry(calls[k].raised[1])>>
    /\ pc \in {"for", "done"} => Len(outputs) + Len(log) = i - 1

(* the finished iterations that raised an exception; those whose print
   raised after writing; those whose print returned without writing *)
Raised == {k \in 1..Len(calls) : Completed(k) /\ calls[k].raised # None}
WroteThenRaised ==
    {k \in 1..Len(calls) :
        Completed(k) /\ calls[k].printed = 1 /\ calls[k].print_raised = 1}
ReturnedUnwritten ==
    {k \in 1..Len(calls) :
        Completed(k) /\ calls[k].printed = 0 /\ calls[k].print_returned = 1}

(* C10 amended: every finished iteration has at most one output and at
   most one log entry.  One that raised an exception has exactly one entry:
   an ERROR from handle_url_error and no output when the exception is a
   RequestException; a WARNING from handle_element_error for any other
   exception, wherever it was raised (fetch, parse, extractor, print), and
   then no output unless print raised after writing.  One that raised
   nothing has no entry and one complete output, or no output when print
   returned without writing.  Log entries equal the iterations that raised;
   outputs plus entries equal the iterations finished plus the prints that
   raised after writing minus the prints that returned unwritten; the log
   is the iterations' entries in locator order and only ever grows. *)
C10_Outcomes ==
    /\ [](/\ \A k \in 1..Len(calls) :
               Completed(k) =>
                  /\ calls[k].printed <= 1
                  /\ Len(calls[k].logged) <= 1
                  /\ calls[k].printed = 1 => calls[k].extracted = 1
                  /\ IF calls[k].raised = None
                     THEN /\ calls[k].logged = <<>>
                          /\ calls[k].print_returned = 1
                          /\ calls[k].print_raised = 0
                     ELSE IF calls[k].raised[1] \in RequestExceptions
                     THEN /\ calls[k].logged =
                                <<UrlErrorEntry(url_list_s[k], calls[k].raised[1])>>
                          /\ calls[k].printed = 0
                     ELSE /\ calls[k].logged =
                                <<ElementWarningEntry(calls[k].raised[1])>>
                          /\ calls[k].printed = 1 => calls[k].print_raised = 1
          /\ Cardinality({n \in 1..Len(outputs) : ~outputs[n].complete})
                = Cardinality({k \in 1..Len(calls) :
                                  calls[k].printed = 1 /\ calls[k].print_raised = 1})
          /\ Len(outputs) = Cardinality({k \in 1..Len(calls) : calls[k].printed = 1})
          /\ pc \in {"for", "done"} =>
                /\ Len(log) = Cardinality(Raised)
                /\ Len(outputs) + Len(log) + Cardinality(ReturnedUnwritten)
                      = (i - 1) + Cardinality(WroteThenRaised)
          /\ log = LoggedInOrder)
    /\ [][Len(log') >= Len(log) /\ SubSeq(log', 1, Len(log)) = log]_vars

C10_Witness ==
    /\ pc = "done"
    /\ WroteThenRaised # {}
    /\ ReturnedUnwritten # {}

----------------------------------------------------------------------------
(* A scraper object on its own: its page is fixed at construction and any
   extractor may then be called on it, in any order *)

CallResult(method, r) ==
    [method |-> method, raised |-> r.raised, value |-> r.value]

Call(method, r) ==
    /\ pc = "scraper"
    /\ result' = CallResult(method, r)
    /\ UNCHANGED <<url_list_s, i, pc, response, soup, buttons_list, outputs, log, exc, calls>>

CallOverviewButtons == Call("extract_overview_buttons", extract_overview_buttons(soup[1]))
CallPoleStudioName == Call("extract_pole_studio_name", extract_pole_studio_name(soup[1]))
CallContactInfo == Call("extract_contact_info", extract_contact_info(soup[1]))
CallAddress == Call("extract_address", extract_address(soup[1]))
CallDescription == Call("extract_description", extract_description(soup[1]))
CallRating == Call("extract_rating", extract_rating(soup[1]))
CallRatingFactors == Call("extract_rating_factors", extract_rating_factors(soup[1]))
CallArt == Call("extract_art", extract_art(soup[1]))
CallSale == Call("extract_sale", extract_sale(soup[1]))
CallImageUrls == Call("extract_image_urls", extract_image_urls(soup[1]))

(* the state right after PoleStudioScraper(url) returned with this page *)
ScraperOn(pages) ==
    /\ url_list_s = <<>>
    /\ i = 1
    /\ pc = "scraper"
    /\ \E page \in pages :
          /\ soup = Some(page)
          /\ response = Some([status_code |-> 200, markup_ok |-> TRUE, tree |-> page])
    /\ buttons_list = None
    /\ outputs = <<>>
    /\ log = <<>>
    /\ exc = None
    /\ calls = <<>>
    /\ result = NoCall

(* pages that differ from a background page in one selector's matches *)
Backgrounds == {EmptyPage, FullPage}

TextLists == SeqsUpTo(Texts, MaxElems)
ButtonDivLists == SeqsUpTo(SeqsUpTo({<<"x">>}, MaxInner), MaxElems)
FactorParagraphs == {<<>>, <<<<"x">>>>, <<<<"y">>, <<"x">>>>}
FactorItemLists ==
    SeqsUpTo([label : FactorParagraphs, value : FactorParagraphs], MaxElems)
(* image containers: no img, a first img without src, a first img with a
   src (two different urls), and a second img that is never looked at *)
PictureDivs ==
    {<<>>, <<[src |-> None]>>, <<[src |-> Some(<<"x">>)]>>,
     <<[src |-> Some(<<"y">>)]>>,
     <<[src |-> None], [src |-> Some(<<"x">>)]>>,
     <<[src |-> Some(<<"y">>)], [src |-> Some(<<"x">>)]>>}
PictureLists == SeqsUpTo(PictureDivs, MaxElems)
SampleRatings == {<<>>, <<RatingExample>>, <<<<"4.8">>>>}
SampleAddresses == {<<>>, <<AddressExample>>, <<<<"Main">>>>}
SampleContacts ==
    {<<>>, <<<<>>>>, <<<<[href |-> None]>>>>,
     <<<<Anchor(MailA), Anchor(Tel123), Anchor(HomepageExample)>>>>}

Pages ==
    UNION {
       {[bg EXCEPT !.buttons_divs = d] : d \in ButtonDivLists}
       \cup {[bg EXCEPT !.name_h1 = d] : d \in TextLists}
       \cup {[bg EXCEPT !.contact_divs = d] : d \in SampleContacts}
       \cup {[bg EXCEPT !.address_p = d] : d \in SampleAddresses}
       \cup {[bg EXCEPT !.description_div = d] : d \in TextLists}
       \cup {[bg EXCEPT !.rating_p = d] : d \in SampleRatings}
       \cup {[bg EXCEPT !.factor_items = d] : d \in FactorItemLists}
       \cup {[bg EXCEPT !.art_p = d] : d \in TextLists}
       \cup {[bg EXCEPT !.sale_p = d] : d \in TextLists}
       \cup {[bg EXCEPT !.pictures = d] : d \in PictureLists}
       : bg \in Backgrounds}

InitPage == ScraperOn(Pages)

NextPage ==
    \/ CallOverviewButtons
    \/ CallPoleStudioName
    \/ CallContactInfo
    \/ CallAddress
    \/ CallDescription
    \/ CallRating
    \/ CallRatingFactors
    \/ CallArt
    \/ CallSale
    \/ CallImageUrls

SpecPage == InitPage /\ [][NextPage]_vars

(* contact containers: every arrangement of a few anchors *)
HrefAtoms == {"mailto:", "tel:", "a"}
Hrefs == SeqsUpTo(HrefAtoms, 2) \cup {MailA, MailB, Tel123, HomepageExample}
Anchors == {[href |-> None]} \cup {Anchor(h) : h \in Hrefs}
ContactDivLists == SeqsUpTo(SeqsUpTo(Anchors, MaxAnchors), MaxContactDivs)
ExampleContactDivs ==
    {<<<<Anchor(o[1]), Anchor(o[2]), Anchor(o[3])>>>> :
        o \in {p \in [1..3 -> {MailA, Tel123, HomepageExample}] :
                  \A m, n \in 1..3 : m # n => p[m] # p[n]}}

InitContact ==
    ScraperOn({[EmptyPage EXCEPT !.contact_divs = d] :
                  d \in ContactDivLists \cup ExampleContactDivs})

SpecContact == InitContact /\ [][CallContactInfo]_vars

(* rating paragraphs: every short text over the characters that matter *)
RatingAtoms == {"4", " ", "\n", "(", ")"}
RatingTexts ==
    SeqsUpTo(RatingAtoms, MaxRatingLen)
       \cup {RatingExample, <<"4.8">>, <<"4.8", "\n", "(", "123", ")">>,
             <<"\t", "4.8", " ", "(", "123", ")", "\n">>}

InitRating ==
    ScraperOn({[EmptyPage EXCEPT !.rating_p = d] :
                  d \in {<<>>} \cup {<<t>> : t \in RatingTexts}})

SpecRating == InitRating /\ [][CallRating]_vars

(* address paragraphs *)
AddressAtoms == {"x", "1", " ", ","}
AddressTexts == SeqsUpTo(AddressAtoms, MaxAddrLen) \cup {AddressExample}

InitAddress ==
    ScraperOn({[EmptyPage EXCEPT !.address_p = d] :
                  d \in {<<>>} \cup {<<t>> : t \in AddressTexts}})

SpecAddress == InitAddress /\ [][CallAddress]_vars

----------------------------------------------------------------------------
(* Properties of the extractors *)

Called(method) == pc = "scraper" /\ result.method = method

RECURSIVE Join(_, _)
Join(parts, sep) ==
    IF Len(parts) = 1 THEN parts[1]
    ELSE parts[1] \o <<sep>> \o Join(Tail(parts), sep)

Occurs(s, c) == \E n \in 1..Len(s) : s[n] = c
Count(s, c) == Cardinality({n \in 1..Len(s) : s[n] = c})
FirstIndex(s, c) == CHOOSE n \in 1..Len(s) : s[n] = c /\ \A m \in 1..(n - 1) : s[m] # c

(* parts is what splitting text at every sep gives *)
IsSplitOf(parts, text, sep) ==
    /\ Len(parts) >= 1
    /\ \A n \in 1..Len(parts) : ~Occurs(parts[n], sep)
    /\ Join(parts, sep) = text

HrefsInOrder(page) ==
    LET divs == page.contact_divs
        flat == Flatten(divs)
        with == {n \in 1..Len(flat) : flat[n].href # None}
        nth(j) == CHOOSE n \in with : Cardinality({m \in with : m <= n}) = j
    IN  [j \in 1..Cardinality(with) |-> flat[nth(j)].href[1]]

CategoryOf(href) ==
    IF href # <<>> /\ href[1] = "mailto:" THEN "E-Mail"
    ELSE IF href # <<>> /\ href[1] = "tel:" THEN "Telefon"
    ELSE "Homepage"

PrefixRemoved(href) ==
    IF CategoryOf(href) = "Homepage" THEN href ELSE Tail(href)

(* C5: every anchor with an href is classified by its scheme, and each
   category ends holding the value, with the scheme prefix removed for
   E-Mail and Telefon, of the last anchor of that category in document
   order; a category without an anchor stays None.  (What a category holds
   is then a function of that category's anchors alone, whatever lies
   between them.) *)
C5_ContactLastWins ==
    Called("extract_contact_info") =>
       LET hrefs == HrefsInOrder(soup[1])
       IN  /\ result.raised = None
           /\ \A c \in {"E-Mail", "Homepage", "Telefon"} :
                 LET of_c == {n \in 1..Len(hrefs) : CategoryOf(hrefs[n]) = c}
                 IN  IF of_c = {} THEN result.value[c] = None
                     ELSE LET last == CHOOSE n \in of_c : \A m \in of_c : m <= n
                          IN  result.value[c] = Some(PrefixRemoved(hrefs[last]))

(* C6: with a rating element whose text holds "(", the result is (the text
   before the first "(", stripped; the text after it with ")" removed,
   stripped); with a rating element whose text holds no "(", and with no
   rating element, the result is absent and nothing is raised. *)
C6_RatingSplit ==
    Called("extract_rating") =>
       /\ result.raised = None
       /\ LET matches == soup[1].rating_p
          IN  IF matches = <<>> THEN result.value = <<None, None>>
              ELSE LET text == matches[1]
                   IN  IF ~Occurs(text, "(") THEN result.value = <<None, None>>
                       ELSE LET at == FirstIndex(text, "(")
                                before == SubSeq(text, 1, at - 1)
                                after == SubSeq(text, at + 1, Len(text))
                            IN  result.value =
                                   <<Some(Strip(before)),
                                     Some(Strip(SelectSeq(after, LAMBDA c : c # ")")))>>

(* C7 as stated: for "Main St 5, 10115 Berlin" the tuple is (segments,
   "10115", "Berlin", "Main St 5"). *)
C7_PostalThenCity ==
    (Called("extract_address") /\ soup[1].address_p = <<AddressExample>>) =>
       result.value =
          <<Some(<<<<"Main", " ", "St", " ", "5">>, <<" ", "10115", " ", "Berlin">>>>),
            Some(<<"10115">>), Some(<<"Berlin">>),
            Some(<<"Main", " ", "St", " ", "5">>)>>

(* C7 amended: the tuple is (rawSegments, city, postalCode, street): the
   segments of the text split at commas, then the THIRD and the SECOND of
   the pieces of the second segment split at single spaces, then the first
   segment; for "Main St 5, 10115 Berlin" that is (segments, "Berlin",
   "10115", "Main St 5").  Without an address element all four are None;
   without a comma, or with fewer than three pieces in the second segment,
   IndexError is raised. *)
C7_CityThenPostal ==
    Called("extract_address") =>
       LET matches == soup[1].address_p
       IN  IF matches = <<>>
           THEN result.raised = None /\ result.value = <<None, None, None, None>>
           ELSE LET text == matches[1]
                    second == LET at == FirstIndex(text, ",")
                                  rest == SubSeq(text, at + 1, Len(text))
                              IN  IF Occurs(rest, ",")
                                  THEN SubSeq(rest, 1, FirstIndex(rest, ",") - 1)
                                  ELSE rest
                IN  IF ~Occurs(text, ",") \/ Count(second, " ") < 2
                    THEN result.raised = Some("IndexError")
                    ELSE /\ result.raised = None
                         /\ Len(result.value) = 4
                         /\ LET segments == result.value[1][1]
                                city == result.value[2][1]
                                postal == result.value[3][1]
                                street == result.value[4][1]
                            IN  /\ IsSplitOf(segments, text, ",")
                                /\ street = segments[1]
                                /\ segments[2] = second
                                /\ ~Occurs(postal, " ") /\ ~Occurs(city, " ")
                                /\ \E lead \in 0..Len(second) :
                                      /\ ~Occurs(SubSeq(second, 1, lead), " ")
                                      /\ LET head == SubSeq(second, 1, lead)
                                                       \o <<" ">> \o postal \o <<" ">> \o city
                                         IN  \/ second = head
                                             \/ /\ Len(second) > Len(head)
                                                /\ SubSeq(second, 1, Len(head) + 1)
                                                      = head \o <<" ">>
                                /\ text = AddressExample =>
                                      /\ city = <<"Berlin">>
                                      /\ postal = <<"10115">>
                                      /\ street = <<"Main", " ", "St", " ", "5">>

C7_Witness ==
    /\ Called("extract_address")
    /\ soup[1].address_p = <<AddressExample>>
    /\ result.raised = None

(* the selector each extractor reads, and what it returns when absent *)
SelectorOf ==
    [extract_overview_buttons |-> "buttons_divs",
     extract_pole_studio_name |-> "name_h1",
     extract_contact_info |-> "contact_divs",
     extract_address |-> "address_p",
     extract_description |-> "description_div",
     extract_rating |-> "rating_p",
     extract_rating_factors |-> "factor_items",
     extract_art |-> "art_p",
     extract_sale |-> "sale_p",
     extract_image_urls |-> "pictures"]

(* C8: an extractor whose selector matches nothing returns the absent value
   of its field (None; (None, None); (None, None, None, None); the all-None
   mapping; the empty list), raises nothing, and nothing is logged. *)
C8_AbsenceIsNoError ==
    \A m \in DOMAIN SelectorOf :
       (Called(m) /\ soup[1][SelectorOf[m]] = <<>>) =>
          /\ result.raised = None
          /\ log = <<>>
          /\ CASE m \in {"extract_pole_studio_name", "extract_description", "extract_sale"} ->
                     result.value = None
               [] m = "extract_rating" -> result.value = <<None, None>>
               [] m = "extract_address" -> result.value = <<None, None, None, None>>
               [] m = "extract_contact_info" ->
                     /\ DOMAIN result.value = {"E-Mail", "Homepage", "Telefon"}
                     /\ \A c \in DOMAIN result.value : result.value[c] = None
               [] OTHER -> result.value = <<>>

C8_Witness ==
    /\ Called("extract_pole_studio_name")
    /\ soup[1].name_h1 = <<>>
    /\ soup[1].rating_p # <<>>
    /\ result.value = None

RECURSIVE TotalLen(_)
TotalLen(ss) == IF ss = <<>> THEN 0 ELSE Len(Head(ss)) + TotalLen(Tail(ss))

FactorWellFormed(item) == item.label # <<>> /\ item.value # <<>>
PictureWellFormed(div) == div # <<>> /\ div[1].src # None

(* the j-th index of matches that satisfies Good *)
NthGood(matches, Good(_), j) ==
    CHOOSE n \in 1..Len(matches) :
       /\ Good(matches[n])
       /\ Cardinality({m \in 1..n : Good(matches[m])}) = j

NumGood(matches, Good(_)) == Cardinality({n \in 1..Len(matches) : Good(matches[n])})

(* C9 as stated: each of the four sequence fields has N - M entries, N the
   elements its selector matches and M those of them lacking the required
   sub-part (for an overview container, an <a>). *)
C9_NMinusM ==
    /\ Called("extract_overview_buttons") =>
          Len(result.value) = NumGood(soup[1].buttons_divs, LAMBDA div : div # <<>>)
    /\ Called("extract_rating_factors") =>
          Len(result.value) = NumGood(soup[1].factor_items, FactorWellFormed)
    /\ Called("extract_art") => Len(result.value) = Len(soup[1].art_p)
    /\ Called("extract_image_urls") =>
          Len(result.value) = NumGood(soup[1].pictures, PictureWellFormed)

(* C9 amended: rating factors, amenities and image URLs have exactly N - M
   entries, one per well-formed matching element, in document order, each
   the value derived from that element; overview labels have one entry per
   <a> inside the matching containers (a container with k anchors gives k
   entries), in document order.  Nothing is raised and nothing logged. *)
C9_SequenceFields ==
    /\ Called("extract_rating_factors") =>
          LET items == soup[1].factor_items
          IN  /\ result.raised = None
              /\ Len(result.value) = NumGood(items, FactorWellFormed)
              /\ \A j \in 1..Len(result.value) :
                    LET item == items[NthGood(items, FactorWellFormed, j)]
                    IN  result.value[j] = item.label[1] \o <<":", " ">> \o item.value[1]
    /\ Called("extract_image_urls") =>
          LET divs == soup[1].pictures
          IN  /\ result.raised = None
              /\ Len(result.value) = NumGood(divs, PictureWellFormed)
              /\ \A j \in 1..Len(result.value) :
                    result.value[j] = divs[NthGood(divs, PictureWellFormed, j)][1].src[1]
    /\ Called("extract_art") =>
          /\ result.raised = None
          /\ Len(result.value) = Len(soup[1].art_p)
          /\ \A j \in 1..Len(result.value) : result.value[j] = soup[1].art_p[j]
    /\ Called("extract_overview_buttons") =>
          LET divs == soup[1].buttons_divs
          IN  /\ result.raised = None
              /\ Len(result.value) = TotalLen(divs)
              /\ \A d \in 1..Len(divs) : \A a \in 1..Len(divs[d]) :
                    result.value[TotalLen(SubSeq(divs, 1, d - 1)) + a] = divs[d][a]
    /\ log = <<>>

C9_Witness ==
    /\ Called("extract_rating_factors")
    /\ Len(soup[1].factor_items) = 2
    /\ NumGood(soup[1].factor_items, FactorWellFormed) = 1
    /\ Len(result.value) = 1

====
